---- MODULE Spec2Model ----
(***************************************************************************)
(* A model of gc-image (src/lib.rs): opening a GameCube disc image,        *)
(* validating its header, region, file-system table (FST) and banner, and  *)
(* listing the FST.                                                        *)
(*                                                                         *)
(* The image file is a sparse byte store: file_mem gives the bytes that    *)
(* are not zero-filled, every other position below file_len reads as 0.    *)
(* A u32 is a pair <<hi, lo>> of 16-bit halves, so that the full 32-bit    *)
(* range and its overflow are represented exactly.                         *)
(***************************************************************************)
EXTENDS Integers, Sequences, FiniteSets, TLC

VARIABLES
    src,          \* the layout the image file was written from (never read by the program)
    path_exists,  \* whether the path names an existing file
    file_len,     \* the file's length in bytes (fs::metadata().len())
    file_mem,     \* position -> byte, for the positions that are not zero-filled
    build,        \* "debug" (overflow checks on) or "release" (u32 arithmetic wraps)
    pc,           \* position of the caller in open / files / the function applied
    header,       \* DVDHeader parsed by parse_header
    region,       \* Region resolved from game_code[3]
    root_entry,   \* RootDirectory read by read_root_entry
    i,            \* loop index of find_file / files
    banner_entry, \* FilesystemEntry returned by find_file
    banner,       \* Banner decoded by read_banner
    result,       \* what GCImage::open returned: Ok / Err / Panic (None while running)
    files,        \* the Vec<FilesystemEntry> that files() is filling
    listing,      \* what GCImage::files returned: Ok / Err / Panic (None while running)
    trace,        \* the steps taken and reads issued so far, in order
    arg           \* input of the function applied (specifications of single functions)

vars == <<src, path_exists, file_len, file_mem, build, pc, header, region,
          root_entry, i, banner_entry, banner, result, files, listing, trace, arg>>

-----------------------------------------------------------------------------
(* Program constants (src/lib.rs:7-14).                                    *)

DVD_HEADER_SIZE == 1088

DVD_MAGIC_NUMBER == <<49715, 40765>>

DVD_IMAGE_SIZE == 1459978240

GAME_NAME_SIZE == 992

CONSOLE_ID == 71

FILE_ENTRY_SIZE == 12

BANNER_NAME == <<111, 112, 101, 110, 105, 110, 103, 46, 98, 110, 114>>

BANNER_SZ == 6496

-----------------------------------------------------------------------------
(* u32 arithmetic on <<hi, lo>> pairs.                                     *)

Half == 256 * 256

U32(n) == <<n \div Half, n % Half>>

\* (x as u64) >= n, for an n below 2^31
U64Ge(x, n) == IF x[1] >= 32768 THEN TRUE ELSE x[1] * Half + x[2] >= n

U32Lt(x, y) == x[1] < y[1] \/ (x[1] = y[1] /\ x[2] < y[2])

\* x + y in u32: the wrapped value and whether the sum left the 32-bit range
U32Add(x, y) ==
    LET lo == x[2] + y[2]
        hi == x[1] + y[1] + (lo \div Half)
    IN  [val |-> <<hi % Half, lo % Half>>, overflow |-> hi >= Half]

\* x * k in u32 for a small k
U32Mul(x, k) ==
    LET lo == x[2] * k
        hi == x[1] * k + (lo \div Half)
    IN  [val |-> <<hi % Half, lo % Half>>, overflow |-> hi >= Half]

\* overflow of a u32 operation panics when overflow checks are on
Overflows(r) == r.overflow /\ build = "debug"

u8_arr_to_u32(arr) == <<arr[1] * 256 + arr[2], arr[3] * 256 + arr[4]>>

u8_arr_to_u24(arr) == <<arr[1], arr[2] * 256 + arr[3]>>

\* big-endian bytes of a u32, as the image stores it
BE32(x) == <<x[1] \div 256, x[1] % 256, x[2] \div 256, x[2] % 256>>

BE24(x) == <<x[1] % 256, x[2] \div 256, x[2] % 256>>

-----------------------------------------------------------------------------
(* The file: seek + read_exact, and the byte iterator of read_string.      *)

ByteAt(p) == IF p \in DOMAIN file_mem THEN file_mem[p] ELSE 0

\* read_exact of n bytes at u32 offset o succeeds iff o + n <= file length
CanRead(o, n) == o[1] < 32768 /\ o[1] * Half + o[2] <= file_len - n

ReadExact(o, n) == [k \in 1..n |-> ByteAt(o[1] * Half + o[2] + k - 1)]

RECURSIVE BytesUntilZero(_)
\* file.bytes() from position p, up to a zero byte or the end of the file
BytesUntilZero(p) ==
    IF p >= file_len \/ ByteAt(p) = 0 THEN <<>>
    ELSE <<ByteAt(p)>> \o BytesUntilZero(p + 1)

-----------------------------------------------------------------------------
(* String::from_utf8 accepts exactly the well-formed UTF-8 sequences:      *)
(* every lead byte is followed by its continuation bytes (with the ranges  *)
(* that exclude overlong forms, surrogates and values above U+10FFFF), and *)
(* every continuation byte belongs to a lead byte before it.               *)

Cont(b) == b >= 128 /\ b <= 191

\* length of the sequence a byte starts; 0 for a byte that starts none
SeqLen(b) ==
    IF b < 128 THEN 1
    ELSE IF b >= 194 /\ b <= 223 THEN 2
    ELSE IF b >= 224 /\ b <= 239 THEN 3
    ELSE IF b >= 240 /\ b <= 244 THEN 4
    ELSE 0

Utf8Valid(s) ==
    \A k \in 1..Len(s) :
        LET b == s[k]
        IN  IF b < 128 THEN TRUE
            ELSE IF Cont(b)
            THEN \E j \in 1..3 : /\ k - j >= 1
                                 /\ SeqLen(s[k - j]) > j
                                 /\ \A m \in 1..(j - 1) : Cont(s[k - m])
            ELSE /\ SeqLen(b) >= 2
                 /\ k + SeqLen(b) - 1 <= Len(s)
                 /\ \A m \in 1..(SeqLen(b) - 1) : Cont(s[k + m])
                 /\ (b = 224 => s[k + 1] >= 160)
                 /\ (b = 237 => s[k + 1] <= 159)
                 /\ (b = 240 => s[k + 1] >= 144)
                 /\ (b = 244 => s[k + 1] <= 143)

-----------------------------------------------------------------------------
(* Results.                                                                *)

Ok(v) == [tag |-> "Ok", val |-> v]

Err(e) == [tag |-> "Err", val |-> e]

Panic(m) == [tag |-> "Panic", val |-> m]

None == [tag |-> "None", val |-> "none"]

IOError(msg) == [kind |-> "IOError", info |-> msg]

UnexpectedEof == IOError("failed to fill whole buffer")

InvalidFileType == [kind |-> "InvalidFileType", info |-> "invalid image file"]

InvalidRegion(byte) == [kind |-> "InvalidRegion", info |-> byte]

InvalidHeader(msg) == [kind |-> "InvalidHeader", info |-> msg]

InvalidBanner(msg) == [kind |-> "InvalidBanner", info |-> msg]

FileNotFound(name) == [kind |-> "FileNotFound", info |-> name]

-----------------------------------------------------------------------------
(* Region::from_byte (src/lib.rs:43-65).                                   *)

\* the arms for 'J' and 'P' exchanged
Region_from_byte_swapped(byte) ==
    CASE byte = 69 -> Ok("USA")
      [] byte = 74 -> Ok("EUR")
      [] byte = 80 -> Ok("JPN")
      [] byte = 70 -> Ok("FRA")
      [] OTHER     -> Err(InvalidRegion(byte))

Region_from_byte(byte) ==
    CASE byte = 69 -> Ok("USA")
      [] byte = 74 -> Ok("JPN")
      [] byte = 80 -> Ok("EUR")
      [] byte = 70 -> Ok("FRA")
      [] OTHER     -> Err(InvalidRegion(byte))

-----------------------------------------------------------------------------
(* parse_header (src/lib.rs:180-212): data is the first 0x440 bytes.       *)
(* Sequences are 1-based: data[k + 1] is the source's data[k].             *)

parse_header(data) ==
    LET game_name == SubSeq(data, 33, 32 + GAME_NAME_SIZE)
    IN  IF ~Utf8Valid(game_name)
        THEN Panic("unwrap on Err(FromUtf8Error)")
        ELSE Ok([game_code       |-> SubSeq(data, 1, 4),
                 maker_code      |-> SubSeq(data, 5, 6),
                 disk_id         |-> data[7],
                 version         |-> data[8],
                 audio_streaming |-> data[9] # 0,
                 stream_buf_sz   |-> data[10],
                 magic_word      |-> u8_arr_to_u32(SubSeq(data, 29, 32)),
                 game_name       |-> game_name,
                 dol_ofst        |-> u8_arr_to_u32(SubSeq(data, 1057, 1060)),
                 fst_ofst        |-> u8_arr_to_u32(SubSeq(data, 1061, 1064)),
                 fst_sz          |-> u8_arr_to_u32(SubSeq(data, 1065, 1068)),
                 max_fst_sz      |-> u8_arr_to_u32(SubSeq(data, 1069, 1072))])

(* validate_header (src/lib.rs:347-361).                                   *)

\* an FST offset equal to the image size let through (> for >=)
validate_header_inclusive(hdr) ==
    IF hdr.magic_word # DVD_MAGIC_NUMBER
    THEN Err(InvalidHeader("incorrect or missing magic number"))
    ELSE IF U64Ge(hdr.fst_ofst, DVD_IMAGE_SIZE + 1)
    THEN Err(InvalidHeader("malformed filesystem table offset"))
    ELSE IF U64Ge(hdr.dol_ofst, DVD_IMAGE_SIZE)
    THEN Err(InvalidHeader("malformed bootfile offset"))
    ELSE IF hdr.game_code[1] # CONSOLE_ID
    THEN Err(InvalidHeader("incorrect console id"))
    ELSE Ok("unit")

validate_header(hdr) ==
    IF hdr.magic_word # DVD_MAGIC_NUMBER
    THEN Err(InvalidHeader("incorrect or missing magic number"))
    ELSE IF U64Ge(hdr.fst_ofst, DVD_IMAGE_SIZE)
    THEN Err(InvalidHeader("malformed filesystem table offset"))
    ELSE IF U64Ge(hdr.dol_ofst, DVD_IMAGE_SIZE)
    THEN Err(InvalidHeader("malformed bootfile offset"))
    ELSE IF hdr.game_code[1] # CONSOLE_ID
    THEN Err(InvalidHeader("incorrect console id"))
    ELSE Ok("unit")

(* validate_banner (src/lib.rs:363-372).                                   *)

\* the version byte left unchecked
validate_banner_any_version(bnr) ==
    IF \/ bnr.magic_word[1] # 66
       \/ bnr.magic_word[2] # 78
       \/ bnr.magic_word[3] # 82
    THEN Err(InvalidBanner("invalid banner magic word"))
    ELSE Ok("unit")

validate_banner(bnr) ==
    IF \/ bnr.magic_word[1] # 66
       \/ bnr.magic_word[2] # 78
       \/ bnr.magic_word[3] # 82
       \/ (bnr.magic_word[4] # 49 /\ bnr.magic_word[4] # 50)
    THEN Err(InvalidBanner("invalid banner magic word"))
    ELSE Ok("unit")

-----------------------------------------------------------------------------
(* The FST walker.                                                         *)

(* read_root_entry (src/lib.rs:248-265).                                   *)
read_root_entry(fst_ofst) ==
    IF ~CanRead(fst_ofst, FILE_ENTRY_SIZE) THEN Err(UnexpectedEof)
    ELSE LET data        == ReadExact(fst_ofst, FILE_ENTRY_SIZE)
             flags       == data[1]
             num_entries == u8_arr_to_u32(SubSeq(data, 9, 12))
             product     == U32Mul(num_entries, FILE_ENTRY_SIZE)
         IN  IF flags # 1
             THEN Err(InvalidHeader("invalid root directory entry"))
             ELSE IF Overflows(product)
             THEN Panic("attempt to multiply with overflow")
             ELSE Ok([num_entries       |-> num_entries,
                      string_table_ofst |-> product.val])

(* read_string (src/lib.rs:316-330): seeking past the end is allowed and   *)
(* the byte iterator then yields nothing.                                  *)
read_string(ofst) ==
    LET bytes == IF ofst[1] >= 32768 THEN <<>>
                 ELSE BytesUntilZero(ofst[1] * Half + ofst[2])
    IN  IF Utf8Valid(bytes) THEN Ok(bytes)
        ELSE Panic("unwrap on Err(FromUtf8Error)")

\* only a flag byte of 1 taken for a directory
read_entry_flag_one(ofst, string_table_ofst) ==
    IF ~CanRead(ofst, FILE_ENTRY_SIZE) THEN Err(UnexpectedEof)
    ELSE LET data          == ReadExact(ofst, FILE_ENTRY_SIZE)
             flags         == data[1]
             filename_ofst == u8_arr_to_u24(SubSeq(data, 2, 4))
             name_at       == U32Add(filename_ofst, string_table_ofst)
             filename      == read_string(name_at.val)
             first         == u8_arr_to_u32(SubSeq(data, 5, 8))
             second        == u8_arr_to_u32(SubSeq(data, 9, 12))
         IN  IF Overflows(name_at) THEN Panic("attempt to add with overflow")
             ELSE IF filename.tag = "Panic" THEN filename
             ELSE IF flags # 1
             THEN Ok([filename |-> filename.val,
                      entry    |-> [type |-> "File",
                                    file_offset |-> first,
                                    file_length |-> second]])
             ELSE Ok([filename |-> filename.val,
                      entry    |-> [type |-> "Directory",
                                    parent_offset |-> first,
                                    next_offset   |-> second]])

(* read_entry (src/lib.rs:267-298).                                        *)
read_entry(ofst, string_table_ofst) ==
    IF ~CanRead(ofst, FILE_ENTRY_SIZE) THEN Err(UnexpectedEof)
    ELSE LET data          == ReadExact(ofst, FILE_ENTRY_SIZE)
             flags         == data[1]
             filename_ofst == u8_arr_to_u24(SubSeq(data, 2, 4))
             name_at       == U32Add(filename_ofst, string_table_ofst)
             filename      == read_string(name_at.val)
             first         == u8_arr_to_u32(SubSeq(data, 5, 8))
             second        == u8_arr_to_u32(SubSeq(data, 9, 12))
         IN  IF Overflows(name_at) THEN Panic("attempt to add with overflow")
             ELSE IF filename.tag = "Panic" THEN filename
             ELSE IF flags = 0
             THEN Ok([filename |-> filename.val,
                      entry    |-> [type |-> "File",
                                    file_offset |-> first,
                                    file_length |-> second]])
             ELSE Ok([filename |-> filename.val,
                      entry    |-> [type |-> "Directory",
                                    parent_offset |-> first,
                                    next_offset   |-> second]])

-----------------------------------------------------------------------------
(* The image files the program is run on.  A layout names the header       *)
(* fields, the root record and the FST records; ImageBytes writes it out   *)
(* byte by byte in the on-disk format (big-endian fields, 12-byte records, *)
(* zero-terminated names).  Later writes overwrite earlier ones, so a      *)
(* layout whose parts overlap is the file that such an image really is.    *)

MaxEntries == 2    \* FST records after the root record

MaxIter == 5       \* loop iterations followed in find_file and files

Name_a == <<97>>

Name_d == <<100>>

Name_prefix == <<111, 112, 101, 110, 105, 110, 103, 46, 98, 110>>

Name_accented == <<195, 169>>

Name_invalid == <<255>>

\* where the banner payloads lie, and the four magic bytes of each
BannerAt(j) == j * 8192

BannerMagics == << <<66, 78, 82, 49>>, <<66, 78, 82, 50>>, <<66, 78, 82, 51>>,
                  <<88, 78, 82, 49>>, <<66, 88, 82, 49>>, <<66, 78, 88, 49>> >>

FileRec(name, at, length) ==
    [flag |-> 0, name |-> name, first |-> U32(at), second |-> U32(length)]

DirRec(flag, name) ==
    [flag |-> flag, name |-> name, first |-> U32(0), second |-> U32(1)]

GoodBanner == FileRec(BANNER_NAME, BannerAt(1), BANNER_SZ)

Protos ==
    {FileRec(BANNER_NAME, BannerAt(j), BANNER_SZ) : j \in 1..Len(BannerMagics)}
    \cup {FileRec(BANNER_NAME, BannerAt(1), BANNER_SZ - 1),
          FileRec(BANNER_NAME, BannerAt(2), BANNER_SZ + 1),
          FileRec(BANNER_NAME, DVD_IMAGE_SIZE - BANNER_SZ + 1, BANNER_SZ),
          DirRec(1, BANNER_NAME), DirRec(2, BANNER_NAME), DirRec(1, Name_d),
          FileRec(Name_a, BannerAt(1), BANNER_SZ),
          FileRec(Name_prefix, BannerAt(2), BANNER_SZ),
          FileRec(Name_accented, BannerAt(2), 3),
          FileRec(Name_invalid, BannerAt(1), BANNER_SZ)}

RECURSIVE NameOfst(_, _)
\* offset of the j-th record's name in the string table (the root's is 0)
NameOfst(entries, j) ==
    IF j = 1 THEN 1 ELSE NameOfst(entries, j - 1) + Len(entries[j - 1].name) + 1

RECURSIVE Records(_, _)
Records(entries, j) ==
    IF j > Len(entries) THEN <<>>
    ELSE <<entries[j].flag>> \o BE24(U32(NameOfst(entries, j)))
         \o BE32(entries[j].first) \o BE32(entries[j].second)
         \o Records(entries, j + 1)

RECURSIVE Strings(_, _)
Strings(entries, j) ==
    IF j > Len(entries) THEN <<>>
    ELSE entries[j].name \o <<0>> \o Strings(entries, j + 1)

FstBytes(d) ==
    <<d.root_flag, 0, 0, 0, 0, 0, 0, 0>> \o BE32(d.num_entries)
    \o Records(d.entries, 1) \o <<0>> \o Strings(d.entries, 1)

FstLen(entries) == NameOfst(entries, Len(entries) + 1) + 12 * (Len(entries) + 1)

Patches(d) ==
    << [at |-> 0,    bytes |-> d.game_code],
       [at |-> 28,   bytes |-> BE32(d.magic_word)],
       [at |-> 32,   bytes |-> d.game_name],
       [at |-> 1056, bytes |-> BE32(d.dol_ofst) \o BE32(d.fst_ofst)
                               \o BE32(U32(FstLen(d.entries)))
                               \o BE32(U32(FstLen(d.entries)))] >>
    \o [j \in 1..Len(BannerMagics) |-> [at |-> BannerAt(j), bytes |-> BannerMagics[j]]]
    \o (IF d.fst_ofst[1] >= 32768 THEN <<>>
        ELSE << [at |-> d.fst_ofst[1] * Half + d.fst_ofst[2], bytes |-> FstBytes(d)] >>)

RECURSIVE Overlay(_, _)
\* the first j writes applied in order, a later one over an earlier one
Overlay(ps, j) ==
    LET bytes == ps[j].bytes
        at    == ps[j].at
        this  == [q \in at..(at + Len(bytes) - 1) |-> bytes[q - at + 1]]
    IN  IF j = 1 THEN this ELSE this @@ Overlay(ps, j - 1)

ImageBytes(d) ==
    LET all == Overlay(Patches(d), Len(Patches(d)))
    IN  [q \in {q \in DOMAIN all : q < d.len /\ all[q] # 0} |-> all[q]]

GoodLayout ==
    [exists      |-> TRUE,
     len         |-> DVD_IMAGE_SIZE,
     game_code   |-> <<71, 90, 76, 69>>,
     magic_word  |-> DVD_MAGIC_NUMBER,
     game_name   |-> <<90, 101, 108, 100, 97>>,
     dol_ofst    |-> U32(4096),
     fst_ofst    |-> U32(1280),
     root_flag   |-> 1,
     num_entries |-> U32(2),
     entries     |-> <<GoodBanner>>]

\* header fields varied over a fixed FST
HeaderLayouts ==
    {[GoodLayout EXCEPT !.exists = FALSE]} \cup
    {[GoodLayout EXCEPT !.len = n, !.magic_word = mw,
                        !.game_code = <<g0, 90, 76, g3>>, !.game_name = gn,
                        !.dol_ofst = dol, !.fst_ofst = fst, !.root_flag = rf] :
        n   \in {DVD_IMAGE_SIZE, DVD_IMAGE_SIZE - 1, DVD_IMAGE_SIZE + 1},
        mw  \in {DVD_MAGIC_NUMBER, <<49715, 40764>>},
        g0  \in {71, 72},
        g3  \in {69, 74, 88},
        gn  \in {<<90, 101, 108, 100, 97>>, <<90, 255>>},
        dol \in {U32(4096), U32(DVD_IMAGE_SIZE), <<65535, 65535>>},
        fst \in {U32(1280), U32(0), U32(DVD_IMAGE_SIZE), <<65535, 65535>>},
        rf  \in {1, 0}}

\* FST records varied under a valid header
EntryLayouts ==
    {[GoodLayout EXCEPT !.entries = es, !.num_entries = U32(Len(es) + 1)] :
        es \in UNION {[1..n -> Protos] : n \in 0..MaxEntries}}

\* placement of the FST and the root record's entry count varied
RootLayouts ==
    {[GoodLayout EXCEPT !.entries = es, !.num_entries = ne,
                        !.fst_ofst = U32(IF back = 2 THEN 1280
                                         ELSE DVD_IMAGE_SIZE - FstLen(es) + back),
                        !.game_code = <<71, 90, 76, g3>>] :
        es  \in {<<GoodBanner>>, <<DirRec(1, Name_d), GoodBanner>>,
                 <<FileRec(Name_a, BannerAt(1), 3)>>},
        ne  \in {U32(2), U32(3), <<8192, 0>>, <<5461, 21845>>},
        back \in 0..2,  \* 0: the FST ends with the file, 1: its last byte is cut off
        g3  \in {69, 74}}

Layouts == HeaderLayouts \cup EntryLayouts \cup RootLayouts

-----------------------------------------------------------------------------
(* find_file (src/lib.rs:300-314), one pass of its loop: k is the loop     *)
(* index.  Continue stands for falling through to the next iteration.      *)

Continue == [tag |-> "Continue", val |-> "next"]

\* the entry's type not looked at
find_file_any_type(fst_ofst, root, name, k) ==
    IF ~U32Lt(U32(k), root.num_entries) THEN Err(FileNotFound(name))
    ELSE LET scaled == U32Mul(U32(k), FILE_ENTRY_SIZE)
             ofst   == U32Add(scaled.val, fst_ofst)
             table  == U32Add(root.string_table_ofst, fst_ofst)
             entry  == read_entry(ofst.val, table.val)
         IN  IF Overflows(scaled) THEN Panic("attempt to multiply with overflow")
             ELSE IF Overflows(ofst) \/ Overflows(table)
             THEN Panic("attempt to add with overflow")
             ELSE IF entry.tag # "Ok" THEN entry
             ELSE IF entry.val.filename = name
             THEN entry
             ELSE Continue

\* a name that the requested name starts with taken for a match
find_file_prefix(fst_ofst, root, name, k) ==
    IF ~U32Lt(U32(k), root.num_entries) THEN Err(FileNotFound(name))
    ELSE LET scaled == U32Mul(U32(k), FILE_ENTRY_SIZE)
             ofst   == U32Add(scaled.val, fst_ofst)
             table  == U32Add(root.string_table_ofst, fst_ofst)
             entry  == read_entry(ofst.val, table.val)
         IN  IF Overflows(scaled) THEN Panic("attempt to multiply with overflow")
             ELSE IF Overflows(ofst) \/ Overflows(table)
             THEN Panic("attempt to add with overflow")
             ELSE IF entry.tag # "Ok" THEN entry
             ELSE IF /\ entry.val.entry.type = "File"
                     /\ Len(entry.val.filename) \in 1..Len(name)
                     /\ entry.val.filename = SubSeq(name, 1, Len(entry.val.filename))
             THEN entry
             ELSE Continue

find_file(fst_ofst, root, name, k) ==
    IF ~U32Lt(U32(k), root.num_entries) THEN Err(FileNotFound(name))
    ELSE LET scaled == U32Mul(U32(k), FILE_ENTRY_SIZE)
             ofst   == U32Add(scaled.val, fst_ofst)
             table  == U32Add(root.string_table_ofst, fst_ofst)
             entry  == read_entry(ofst.val, table.val)
         IN  IF Overflows(scaled) THEN Panic("attempt to multiply with overflow")
             ELSE IF Overflows(ofst) \/ Overflows(table)
             THEN Panic("attempt to add with overflow")
             ELSE IF entry.tag # "Ok" THEN entry
             ELSE IF entry.val.entry.type = "File" /\ entry.val.filename = name
             THEN entry
             ELSE Continue

(* read_banner (src/lib.rs:214-246) after find_file has returned: the      *)
(* match on the entry and the length check (lines 216-221, 244) ...        *)
\* a longer file let through (< for !=)
banner_file_at_least(found) ==
    IF found.entry.type = "File"
    THEN IF U32Lt(found.entry.file_length, U32(BANNER_SZ))
         THEN Err(InvalidBanner("malformed banner file"))
         ELSE Ok(found.entry)
    ELSE Err(InvalidBanner("opening.bnr must be a file"))

banner_file(found) ==
    IF found.entry.type = "File"
    THEN IF found.entry.file_length # U32(BANNER_SZ)
         THEN Err(InvalidBanner("malformed banner file"))
         ELSE Ok(found.entry)
    ELSE Err(InvalidBanner("opening.bnr must be a file"))

(* ... and the read and decoding of the payload (lines 222-242).  Only     *)
(* magic_word is kept: graphical_data and the five text fields are copied  *)
(* or decoded lossily, cannot fail, and nothing reads them afterwards.     *)
banner_data(file_data) ==
    IF ~CanRead(file_data.file_offset, BANNER_SZ) THEN Err(UnexpectedEof)
    ELSE Ok([magic_word |-> ReadExact(file_data.file_offset, 4)])

(* GCImage::files (src/lib.rs:156-168): the code before the loop ...       *)
files_begin(fst_ofst) ==
    LET root == read_root_entry(fst_ofst)
        table == U32Add(fst_ofst, root.val.string_table_ofst)
    IN  IF root.tag # "Ok" THEN root
        ELSE IF Overflows(table) THEN Panic("attempt to add with overflow")
        ELSE Ok([root |-> root.val, str_tbl_ofst |-> table.val])

(* ... and one pass of its loop, k the loop index, acc the Vec so far.     *)
files_next(fst_ofst, root, acc, k) ==
    IF ~U32Lt(U32(k), root.num_entries) THEN Ok(acc)
    ELSE LET scaled == U32Mul(U32(k), FILE_ENTRY_SIZE)
             ofst   == U32Add(scaled.val, fst_ofst)
             table  == U32Add(fst_ofst, root.string_table_ofst)
             entry  == read_entry(ofst.val, table.val)
         IN  IF Overflows(scaled) THEN Panic("attempt to multiply with overflow")
             ELSE IF Overflows(ofst) THEN Panic("attempt to add with overflow")
             ELSE IF entry.tag # "Ok" THEN entry
             ELSE [tag |-> "Continue", val |-> Append(acc, entry.val)]

-----------------------------------------------------------------------------
(* GCImage::open (src/lib.rs:129-154), one action per statement, and       *)
(* GCImage::files on the image it returned.                                *)

Init ==
    /\ src \in Layouts
    /\ path_exists = src.exists
    /\ file_len = src.len
    /\ file_mem = ImageBytes(src)
    \* the two builds differ only where u32 arithmetic overflows, which takes
    \* an entry count as in RootLayouts
    /\ build \in (IF src \in RootLayouts THEN {"debug", "release"} ELSE {"release"})
    /\ pc = "open"
    /\ header = None
    /\ region = None
    /\ root_entry = None
    /\ i = 0
    /\ banner_entry = None
    /\ banner = None
    /\ result = None
    /\ files = <<>>
    /\ listing = None
    /\ trace = <<>>
    /\ arg = None

Env == <<src, path_exists, file_len, file_mem, build, arg>>

\* if metadata.len() != DVD_IMAGE_SIZE { return Err(InvalidFileType) }
\* a longer file let through (< for !=)
check_size_at_least(len) ==
    IF len < DVD_IMAGE_SIZE THEN Err(InvalidFileType) ELSE Ok("unit")

check_size(len) ==
    IF len # DVD_IMAGE_SIZE THEN Err(InvalidFileType) ELSE Ok("unit")

\* open returns r (an Err or a Panic) and nothing more of it runs
Return(r) == result' = r /\ pc' = "done"

\* let metadata = fs::metadata(path)?; if metadata.len() != DVD_IMAGE_SIZE ...
OpenMetadata ==
    /\ pc = "open"
    /\ trace' = Append(trace, "metadata")
    /\ IF ~path_exists THEN Return(Err(IOError("No such file or directory")))
       ELSE IF check_size(file_len).tag = "Err" THEN Return(check_size(file_len))
       ELSE pc' = "read_header" /\ result' = result
    /\ UNCHANGED <<Env, header, region, root_entry, i, banner_entry, banner,
                   files, listing>>

\* file.read_exact(&mut data)?; let header = parse_header(&data);
OpenReadHeader ==
    /\ pc = "read_header"
    /\ trace' = Append(trace, "read_header")
    /\ IF ~CanRead(U32(0), DVD_HEADER_SIZE)
       THEN Return(Err(UnexpectedEof)) /\ header' = header
       ELSE LET parsed == parse_header(ReadExact(U32(0), DVD_HEADER_SIZE))
            IN  IF parsed.tag = "Panic"
                THEN Return(parsed) /\ header' = header
                ELSE header' = parsed.val /\ pc' = "validate_header"
                     /\ result' = result
    /\ UNCHANGED <<Env, region, root_entry, i, banner_entry, banner, files, listing>>

\* the region resolved ahead of the header's validation
OpenValidateHeader_region_first ==
    /\ pc = "validate_header"
    /\ trace' = Append(trace, "validate_header")
    /\ LET checked  == validate_header(header)
           resolved == Region_from_byte(header.game_code[4])
       IN  IF resolved.tag # "Ok" THEN Return(resolved)
           ELSE IF checked.tag = "Ok" THEN pc' = "region" /\ result' = result
           ELSE Return(checked)
    /\ UNCHANGED <<Env, header, region, root_entry, i, banner_entry, banner,
                   files, listing>>

\* validate_header(&header)?;
OpenValidateHeader ==
    /\ pc = "validate_header"
    /\ trace' = Append(trace, "validate_header")
    /\ LET checked == validate_header(header)
       IN  IF checked.tag = "Ok" THEN pc' = "region" /\ result' = result
           ELSE Return(checked)
    /\ UNCHANGED <<Env, header, region, root_entry, i, banner_entry, banner,
                   files, listing>>

\* let region = Region::from_byte(header.game_code[3])?;
OpenRegion ==
    /\ pc = "region"
    /\ trace' = Append(trace, "region")
    /\ LET resolved == Region_from_byte(header.game_code[4])
       IN  IF resolved.tag = "Ok"
           THEN region' = resolved.val /\ pc' = "read_root" /\ result' = result
           ELSE Return(resolved) /\ region' = region
    /\ UNCHANGED <<Env, header, root_entry, i, banner_entry, banner, files, listing>>

\* let root_entry = read_root_entry(&mut file, header.fst_ofst)?;
OpenReadRoot ==
    /\ pc = "read_root"
    /\ trace' = Append(trace, "read_root")
    /\ LET root == read_root_entry(header.fst_ofst)
       IN  IF root.tag = "Ok"
           THEN root_entry' = root.val /\ pc' = "find_file" /\ result' = result
           ELSE Return(root) /\ root_entry' = root_entry
    /\ i' = 0
    /\ UNCHANGED <<Env, header, region, banner_entry, banner, files, listing>>

\* read_banner: find_file(file, fst_ofst, root_entry, BANNER_NAME)?
OpenFindFile ==
    /\ pc = "find_file"
    /\ i < MaxIter
    /\ trace' = Append(trace, "find_file")
    /\ LET found == find_file(header.fst_ofst, root_entry, BANNER_NAME, i)
       IN  CASE found.tag = "Continue" ->
                    i' = i + 1 /\ UNCHANGED <<pc, result, banner_entry>>
             [] found.tag = "Ok" ->
                    banner_entry' = found.val /\ pc' = "banner_file"
                    /\ UNCHANGED <<i, result>>
             [] OTHER ->
                    Return(found) /\ UNCHANGED <<i, banner_entry>>
    /\ UNCHANGED <<Env, header, region, root_entry, banner, files, listing>>

\* read_banner: match banner_entry.entry, and the length check
OpenBannerFile ==
    /\ pc = "banner_file"
    /\ trace' = Append(trace, "banner_file")
    /\ LET file_data == banner_file(banner_entry)
       IN  IF file_data.tag = "Ok" THEN pc' = "banner_data" /\ result' = result
           ELSE Return(file_data)
    /\ UNCHANGED <<Env, header, region, root_entry, i, banner_entry, banner,
                   files, listing>>

\* read_banner: seek, read_exact and decoding of the payload
OpenBannerData ==
    /\ pc = "banner_data"
    /\ trace' = Append(trace, "banner_data")
    /\ LET decoded == banner_data(banner_entry.entry)
       IN  IF decoded.tag = "Ok"
           THEN banner' = decoded.val /\ pc' = "validate_banner"
                /\ result' = result
           ELSE Return(decoded) /\ banner' = banner
    /\ UNCHANGED <<Env, header, region, root_entry, i, banner_entry, files, listing>>

\* validate_banner(&banner)?; Ok(GCImage { header, banner, region, file })
OpenValidateBanner ==
    /\ pc = "validate_banner"
    /\ trace' = Append(trace, "validate_banner")
    /\ LET checked == validate_banner(banner)
       IN  IF checked.tag = "Ok"
           THEN /\ result' = Ok([header |-> header, banner |-> banner,
                                 region |-> region])
                /\ pc' = "opened"
           ELSE Return(checked)
    /\ UNCHANGED <<Env, header, region, root_entry, i, banner_entry, banner,
                   files, listing>>

\* files(): read_root_entry(...)?; str_tbl_ofst; Vec::new()
FilesBegin ==
    /\ pc = "opened"
    /\ trace' = Append(trace, "files_begin")
    /\ LET begun == files_begin(result.val.header.fst_ofst)
       IN  IF begun.tag = "Ok"
           THEN root_entry' = begun.val.root /\ pc' = "files_loop"
                /\ listing' = listing
           ELSE listing' = begun /\ pc' = "done" /\ root_entry' = root_entry
    /\ i' = 0
    /\ files' = <<>>
    /\ UNCHANGED <<Env, header, region, banner_entry, banner, result>>

\* files(): one pass of the loop, or Ok(FilesystemTree { files }) after it
FilesNext ==
    /\ pc = "files_loop"
    /\ i < MaxIter
    /\ trace' = Append(trace, "files_next")
    /\ LET next == files_next(result.val.header.fst_ofst, root_entry, files, i)
       IN  IF next.tag = "Continue"
           THEN files' = next.val /\ i' = i + 1 /\ UNCHANGED <<pc, listing>>
           ELSE listing' = next /\ pc' = "done" /\ UNCHANGED <<i, files>>
    /\ UNCHANGED <<Env, header, region, root_entry, banner_entry, banner, result>>

Next ==
    \/ OpenMetadata
    \/ OpenReadHeader
    \/ OpenValidateHeader
    \/ OpenRegion
    \/ OpenReadRoot
    \/ OpenFindFile
    \/ OpenBannerFile
    \/ OpenBannerData
    \/ OpenValidateBanner
    \/ FilesBegin
    \/ FilesNext

Spec == Init /\ [][Next]_vars

-----------------------------------------------------------------------------
(* validate_header and Region::from_byte on their own, applied to inputs   *)
(* drawn from the boundary values of each field.                           *)

Unused ==
    /\ src = None /\ path_exists = FALSE /\ file_len = 0 /\ file_mem = <<>>
    /\ build = "release" /\ header = None /\ region = None
    /\ root_entry = None /\ i = 0 /\ banner_entry = None /\ banner = None
    /\ files = <<>> /\ listing = None /\ trace = <<>>

Apply(r) ==
    /\ pc = "call"
    /\ result' = r
    /\ pc' = "done"
    /\ UNCHANGED <<Env, header, region, root_entry, i, banner_entry, banner,
                   files, listing, trace>>

Offsets ==
    {U32(0), U32(DVD_IMAGE_SIZE - 1), U32(DVD_IMAGE_SIZE), U32(DVD_IMAGE_SIZE + 1),
     <<22277, 0>>, <<22278, 0>>, <<32768, 0>>, <<65535, 65535>>}

Headers ==
    [magic_word : {DVD_MAGIC_NUMBER, <<49715, 40764>>, <<49714, 40765>>, U32(0)},
     fst_ofst   : Offsets,
     dol_ofst   : Offsets,
     game_code  : {<<g0, 90, 76, 69>> : g0 \in {71, 70, 72, 103, 0}}]

InitValidate == Unused /\ pc = "call" /\ result = None /\ arg \in Headers

ApplyValidate == Apply(validate_header(arg))

NextValidate == ApplyValidate

SpecValidate == InitValidate /\ [][NextValidate]_vars

InitRegion == Unused /\ pc = "call" /\ result = None /\ arg \in 0..255

ApplyRegion == Apply(Region_from_byte(arg))

NextRegion == ApplyRegion

SpecRegion == InitRegion /\ [][NextRegion]_vars

-----------------------------------------------------------------------------
(* Properties.                                                             *)

OpenReturned == result.tag # "None"

Bytes(at, n) == [k \in 1..n |-> ByteAt(at + k - 1)]

\* r is the failure of that kind, carrying info
Fails(r, kind, info) == r.tag = "Err" /\ r.val.kind = kind /\ r.val.info = info

\* C1: GCImage::open and GCImage::files always finish by returning a value
\* or an ImageError; neither ever panics, whatever the bytes of the image.
C1_NeverPanics == result.tag # "Panic" /\ listing.tag # "Panic"

\* C2: for an existing source whose length is not 1,459,978,240, open fails
\* with InvalidFileType whatever the content, and has read nothing of the
\* file when it does.
C2_WrongSizeIsInvalidFileType ==
    (path_exists /\ file_len # 1459978240 /\ pc # "open")
        => /\ result.tag = "Err" /\ result.val.kind = "InvalidFileType"
           /\ trace = <<"metadata">>
           /\ pc = "done"

\* a wrongly sized image, otherwise valid, has been turned away
C2_Witness ==
    /\ pc = "done" /\ path_exists
    /\ file_len = DVD_IMAGE_SIZE + 1
    /\ src = [GoodLayout EXCEPT !.len = DVD_IMAGE_SIZE + 1]
    /\ result.tag = "Err" /\ result.val.kind = "InvalidFileType"

HeaderReasons ==
    <<"incorrect or missing magic number", "malformed filesystem table offset",
      "malformed bootfile offset", "incorrect console id">>

ImageSize32 == <<22277, 32768>>

HeaderCheck(h, n) ==
    CASE n = 1 -> h.magic_word = <<49715, 40765>>
      [] n = 2 -> U32Lt(h.fst_ofst, ImageSize32)
      [] n = 3 -> U32Lt(h.dol_ofst, ImageSize32)
      [] n = 4 -> h.game_code[1] = 71

HeaderFailing(h) == {n \in 1..4 : ~HeaderCheck(h, n)}

Least(S) == CHOOSE n \in S : \A m \in S : n <= m

\* C3: validate_header reports the reason of the lowest-numbered failing
\* check among (1) magic word, (2) fst_ofst < image size, (3) dol_ofst <
\* image size, (4) console id, and returns Ok exactly when all four hold.
C3_FirstFailingCheck ==
    pc = "done" =>
        IF HeaderFailing(arg) = {} THEN result.tag = "Ok"
        ELSE Fails(result, "InvalidHeader", HeaderReasons[Least(HeaderFailing(arg))])

\* an offset equal to the image size is refused although magic word and
\* console id are right, and the FST offset is reported before the DOL's
C3_Witness ==
    /\ pc = "done"
    /\ arg.magic_word = DVD_MAGIC_NUMBER /\ arg.game_code[1] = CONSOLE_ID
    /\ arg.fst_ofst = U32(DVD_IMAGE_SIZE) /\ arg.dol_ofst = <<65535, 65535>>
    /\ Fails(result, "InvalidHeader", "malformed filesystem table offset")

\* C8: Region::from_byte maps 'E' to USA, 'P' to EUR, 'J' to JPN, 'F' to
\* FRA, and fails with InvalidRegion carrying the byte for every other one
\* of the 256 byte values.
C8_RegionMapping ==
    pc = "done" =>
        /\ (arg = 69 => result.tag = "Ok" /\ result.val = "USA")
        /\ (arg = 80 => result.tag = "Ok" /\ result.val = "EUR")
        /\ (arg = 74 => result.tag = "Ok" /\ result.val = "JPN")
        /\ (arg = 70 => result.tag = "Ok" /\ result.val = "FRA")
        /\ (arg \notin {69, 80, 74, 70} => Fails(result, "InvalidRegion", arg))

\* the lower-case 'e' is no region
C8_Witness ==
    pc = "done" /\ arg = 101 /\ Fails(result, "InvalidRegion", 101)

-----------------------------------------------------------------------------
(* What the layout says the image holds, for the properties of the FST.    *)

\* the on-disk records, the root record first
Table ==
    <<[flag |-> src.root_flag, name |-> <<>>, first |-> <<0, 0>>,
       second |-> src.num_entries]>> \o src.entries

\* the entry a record stands for
EntryOf(rec) ==
    [filename |-> rec.name,
     entry    |-> IF rec.flag = 0
                  THEN [type |-> "File", file_offset |-> rec.first,
                        file_length |-> rec.second]
                  ELSE [type |-> "Directory", parent_offset |-> rec.first,
                        next_offset |-> rec.second]]

FstAt == src.fst_ofst[1] * 65536 + src.fst_ofst[2]

\* a root record with flag 1 that counts the records, and an FST that lies
\* inside the file, behind the header and clear of the banner payloads
FstIntact ==
    /\ src.root_flag = 1
    /\ src.num_entries = <<0, Len(src.entries) + 1>>
    /\ src.fst_ofst[1] < 32768
    /\ FstAt >= 1088
    /\ FstAt + FstLen(src.entries) <= src.len
    /\ \A j \in 1..Len(BannerMagics) :
           BannerAt(j) + 4 <= FstAt \/ FstAt + FstLen(src.entries) <= BannerAt(j)

\* the records that are files called name
Matches(name) ==
    {j \in 1..Len(Table) : Table[j].flag = 0 /\ Table[j].name = name}

\* every name the scan for name has to decode is well-formed UTF-8
ScanValid(name) ==
    \A j \in 1..Len(Table) :
        (\A m \in Matches(name) : j <= m) => Utf8Valid(Table[j].name)

Took(step) == \E n \in 1..Len(trace) : trace[n] = step

FindReturned == Took("find_file") /\ pc # "find_file"

\* C4: on an opened image whose root record has flag 1 and num_entries = k,
\* followed by k-1 well-formed records and a consistent string table, files
\* returns exactly k entries in on-disk order, the root record first; an
\* entry is a File exactly when its record's flag byte is 0 and a Directory
\* for any other flag byte, and carries the record's zero-terminated name.
C4_FilesListsEveryRecord ==
    (listing.tag # "None" /\ FstIntact
        /\ \A j \in 1..Len(Table) : Utf8Valid(Table[j].name))
        => /\ listing.tag = "Ok"
           /\ Len(listing.val) = Len(src.entries) + 1
           /\ \A j \in 1..Len(Table) : listing.val[j] = EntryOf(Table[j])

\* a listing of the most records allowed, one of which has a flag byte of 2
C4_Witness ==
    /\ listing.tag = "Ok" /\ FstIntact
    /\ Len(listing.val) = MaxEntries + 1
    /\ \E j \in 1..Len(Table) :
           Table[j].flag = 2 /\ listing.val[j].entry.type = "Directory"

\* C5: find_file returns the first record, in on-disk order, that is a File
\* whose name equals the requested name exactly; a Directory of that name
\* is skipped even at a lower index; with no such File it fails with
\* FileNotFound carrying the requested name.
C5_FirstFileOfThatName ==
    (FstIntact /\ ScanValid(BANNER_NAME) /\ FindReturned)
        => IF Matches(BANNER_NAME) = {}
           THEN Fails(result, "FileNotFound", BANNER_NAME)
           ELSE /\ banner_entry = EntryOf(Table[Least(Matches(BANNER_NAME))])
                /\ (~Took("files_begin") => i = Least(Matches(BANNER_NAME)) - 1)
                /\ ~(result.tag = "Err" /\ result.val.kind = "FileNotFound")

\* the file is found behind a directory of the same name
C5_Witness ==
    /\ FstIntact /\ FindReturned
    /\ Len(src.entries) = 2
    /\ src.entries[1] = DirRec(1, BANNER_NAME)
    /\ src.entries[2] = GoodBanner
    /\ banner_entry = EntryOf(GoodBanner)

\* C10: open never fails with InvalidBanner("opening.bnr must be a file"):
\* what find_file hands to read_banner is always a File, and when the only
\* records called "opening.bnr" are directories open fails with
\* FileNotFound("opening.bnr").
C10_DirectoryBranchUnreachable ==
    /\ ~(result.tag = "Err" /\ result.val.kind = "InvalidBanner"
            /\ result.val.info = "opening.bnr must be a file")
    /\ (Took("banner_file") \/ pc = "banner_file")
           => banner_entry.entry.type = "File"
    /\ (FstIntact /\ FindReturned
           /\ (\A j \in 1..Len(Table) : Utf8Valid(Table[j].name))
           /\ (\E j \in 1..Len(Table) : Table[j].name = BANNER_NAME)
           /\ (\A j \in 1..Len(Table) :
                  Table[j].name = BANNER_NAME => Table[j].flag # 0))
           => Fails(result, "FileNotFound", BANNER_NAME)

\* both records are directories called opening.bnr, and open reports
\* FileNotFound
C10_Witness ==
    /\ FstIntact /\ FindReturned
    /\ src.entries = <<DirRec(1, BANNER_NAME), DirRec(2, BANNER_NAME)>>
    /\ Fails(result, "FileNotFound", BANNER_NAME)

\* size, header fields, region byte and game name are all valid
HeaderIntact ==
    /\ src.exists /\ src.len = 1459978240
    /\ src.magic_word = <<49715, 40765>>
    /\ U32Lt(src.fst_ofst, ImageSize32) /\ U32Lt(src.dol_ofst, ImageSize32)
    /\ src.game_code[1] = 71
    /\ src.game_code[4] \in {69, 74, 80, 70}
    /\ Utf8Valid(src.game_name)

BannerRec == Table[Least(Matches(BANNER_NAME))]

IsBannerMagic(m) == m = <<66, 78, 82, 49>> \/ m = <<66, 78, 82, 50>>

\* C6: on an image that is well-formed in every other part and has a File
\* record "opening.bnr", open fails with InvalidBanner when that record's
\* file_length is not 6496, before any byte of the banner is read, and when
\* the four bytes at its file offset are not 'B','N','R' and '1' or '2'.
C6_BadBannerIsInvalidBanner ==
    (HeaderIntact /\ FstIntact /\ ScanValid(BANNER_NAME)
        /\ Matches(BANNER_NAME) # {} /\ OpenReturned)
        => /\ BannerRec.second # <<0, 6496>>
                => /\ Fails(result, "InvalidBanner", "malformed banner file")
                   /\ ~Took("banner_data")
           /\ (/\ BannerRec.second = <<0, 6496>>
               /\ BannerRec.first[1] * 65536 + BannerRec.first[2] + 6496 <= file_len
               /\ ~IsBannerMagic(Bytes(BannerRec.first[1] * 65536
                                       + BannerRec.first[2], 4)))
                => Fails(result, "InvalidBanner", "invalid banner magic word")

\* a banner of the right length whose magic ends in '3', and nothing else
\* wrong with the image
C6_Witness ==
    /\ HeaderIntact /\ FstIntact /\ OpenReturned
    /\ src.entries = <<FileRec(BANNER_NAME, BannerAt(3), 6496)>>
    /\ Fails(result, "InvalidBanner", "invalid banner magic word")

RegionOfByte(b) ==
    CASE b = 69 -> "USA" [] b = 80 -> "EUR" [] b = 74 -> "JPN" [] b = 70 -> "FRA"
      [] OTHER -> "none"

Field32(at) == <<ByteAt(at) * 256 + ByteAt(at + 1), ByteAt(at + 2) * 256 + ByteAt(at + 3)>>

\* C7: whenever open returns Ok, the image it returns is valid in every
\* part: size, magic word, FST and DOL offsets below the image size,
\* console id, region mapped from game_code[3], a root record with flag 1,
\* and a banner with magic BNR1 or BNR2 read from a File record named
\* "opening.bnr" of length 6496.  With any of these violated open returns
\* no image.
C7_OpenedImageIsValid ==
    result.tag = "Ok" =>
        LET image == result.val
            at    == image.header.fst_ofst[1] * 65536 + image.header.fst_ofst[2]
        IN  /\ path_exists /\ file_len = 1459978240
            /\ image.header.magic_word = <<49715, 40765>>
            /\ Field32(28) = image.header.magic_word
            /\ U32Lt(image.header.fst_ofst, ImageSize32)
            /\ Field32(1060) = image.header.fst_ofst
            /\ U32Lt(image.header.dol_ofst, ImageSize32)
            /\ Field32(1056) = image.header.dol_ofst
            /\ image.header.game_code[1] = 71
            /\ image.header.game_code = Bytes(0, 4)
            /\ image.region \in {"USA", "EUR", "JPN", "FRA"}
            /\ image.region = RegionOfByte(image.header.game_code[4])
            /\ ByteAt(at) = 1
            /\ IsBannerMagic(image.banner.magic_word)
            /\ banner_entry.entry.type = "File"
            /\ banner_entry.filename = BANNER_NAME
            /\ banner_entry.entry.file_length = <<0, 6496>>
            /\ image.banner.magic_word
                   = Bytes(banner_entry.entry.file_offset[1] * 65536
                           + banner_entry.entry.file_offset[2], 4)

\* an image is returned: a Japanese one, its banner a BNR2 found behind a
\* directory record
C7_Witness ==
    /\ result.tag = "Ok"
    /\ pc = "opened"
    /\ result.val.banner.magic_word = <<66, 78, 82, 50>>
    /\ Len(src.entries) = 2 /\ src.entries[1].flag # 0

StepOrder ==
    <<"metadata", "read_header", "validate_header", "region", "read_root",
      "find_file", "banner_file", "banner_data", "validate_banner",
      "files_begin", "files_next">>

Rank(step) == CHOOSE n \in 1..Len(StepOrder) : StepOrder[n] = step

\* the steps were taken in the order of StepOrder, none skipped, and only
\* the two loops repeat
InOrder ==
    /\ trace # <<>> => trace[1] = "metadata"
    /\ \A n \in 1..(Len(trace) - 1) :
           \/ Rank(trace[n + 1]) = Rank(trace[n]) + 1
           \/ trace[n + 1] = trace[n] /\ trace[n] \in {"find_file", "files_next"}

\* the error of the earliest step of open that fails on this file, as
\* <<kind, step>>; "later" for a failure behind the root record
EarliestFailure ==
    IF ~path_exists THEN <<"IOError", "metadata">>
    ELSE IF file_len # 1459978240 THEN <<"InvalidFileType", "metadata">>
    ELSE IF \/ Field32(28) # <<49715, 40765>>
            \/ ~U32Lt(Field32(1060), ImageSize32)
            \/ ~U32Lt(Field32(1056), ImageSize32)
            \/ ByteAt(0) # 71
    THEN <<"InvalidHeader", "validate_header">>
    ELSE IF ByteAt(3) \notin {69, 74, 80, 70} THEN <<"InvalidRegion", "region">>
    ELSE IF Field32(1060)[1] * 65536 + Field32(1060)[2] + 12 > file_len
    THEN <<"IOError", "read_root">>
    ELSE IF ByteAt(Field32(1060)[1] * 65536 + Field32(1060)[2]) # 1
    THEN <<"InvalidHeader", "read_root">>
    ELSE IF ~(FstIntact /\ ScanValid(BANNER_NAME)) THEN <<"later", "later">>
    ELSE IF Matches(BANNER_NAME) = {} THEN <<"FileNotFound", "find_file">>
    ELSE IF BannerRec.second # <<0, 6496>> THEN <<"InvalidBanner", "banner_file">>
    ELSE IF BannerRec.first[1] * 65536 + BannerRec.first[2] + 6496 > file_len
    THEN <<"IOError", "banner_data">>
    ELSE <<"InvalidBanner", "validate_banner">>

\* C9: open takes its steps in the order size check, header validation,
\* region, root record, banner lookup, banner length, banner read, banner
\* magic; the error it returns is that of the earliest step that fails and
\* no later step is taken.
C9_FailFastInStepOrder ==
    /\ InOrder
    /\ result.tag \in {"Err", "Panic"} => pc = "done" /\ ~Took("files_begin")
    /\ result.tag = "Err" =>
           IF EarliestFailure = <<"later", "later">>
           THEN /\ result.val.kind \in {"FileNotFound", "InvalidBanner", "IOError"}
                /\ Rank(trace[Len(trace)]) > Rank("read_root")
           ELSE /\ result.val.kind = EarliestFailure[1]
                /\ trace[Len(trace)] = EarliestFailure[2]

\* a valid header, a region byte 'X' and a root flag of 0: InvalidRegion
C9_Witness ==
    /\ Fails(result, "InvalidRegion", 88)
    /\ src.magic_word = DVD_MAGIC_NUMBER /\ src.game_code[1] = CONSOLE_ID
    /\ src.root_flag = 0
    /\ trace = <<"metadata", "read_header", "validate_header", "region">>

====
